---- MODULE Spec2Model ----
(***************************************************************************)
(* The reset-timestamp persistence and synchronisation mechanism of the    *)
(* DNS failure counter: DNSCounter (dns_counter.py), the web server        *)
(* (web_server.py) and the webui blueprint (webui/routes.py).              *)
(*                                                                         *)
(* Time is counted in units of 100 ms (one poll interval of the button     *)
(* thread).  A datetime is a record [t, tz]; its ISO-8601 text is a record *)
(* [text, offset]; a file is a record [exists, readable, content] whose    *)
(* content is the sequence of chunks of text the file holds; a display     *)
(* line is the sequence of its characters.                                 *)
(***************************************************************************)
EXTENDS Integers, Sequences, FiniteSets, TLC

\* ------------------------------------------------------------------ bounds
\* Clock reading at process start (time.time() is far above the debounce
\* window when the process starts).
BootTime == 10
\* How many 100 ms ticks the clock advances in a run of the whole process.
MaxTicks == 2
\* How many 100 ms ticks the clock advances in a run of the button thread alone.
MaxButtonTicks == 5

\* How many times the DNSCounter process is killed and started again.
MaxBoots == 1
\* How many polls of the button line may raise.
MaxPollErrors == 2

MaxTime == BootTime + MaxTicks
MaxButtonTime == BootTime + MaxButtonTicks

\* ------------------------------------------------------- program constants
\* `current_time - last_press > 0.3`, in units of 100 ms.
DEBOUNCE == 3
\* `"version": 1` of the persisted record.
VERSION == 1
\* metrics.py: prometheus_client imported; web_server.py imports it
\* unconditionally, so a process that serves web resets has it.
PROMETHEUS_AVAILABLE == TRUE

\* ----------------------------------------------------------------- threads
ButtonThread == "button"
\* Flask request threads of the DNSCounter process (threaded=True), handling
\* POST /api/reset through the reset callback.
ReqThreads == {"req1"}
\* The request thread of the webui blueprint app (POST /api/v1/reset).
V1Thread == "v1"
\* Threads that run DNSCounter.save_state.
CounterThreads == {ButtonThread} \cup ReqThreads
\* The threads of the DNSCounter process.
CounterProcess == CounterThreads \cup {V1Thread}
\* Request threads of a WebServer process that runs without callbacks
\* (python web_server.py), alongside the DNSCounter process.
StandaloneThreads == {"sa1", "sa2"}
Threads == CounterProcess \cup StandaloneThreads

\* ------------------------------------------------------------------- paths
Target == "last_reset.json"

\* tempfile.NamedTemporaryFile(dir=dirname(persistence_file), delete=False):
\* a new, unique name in the target's directory; one per saving thread.
TempNameIsTarget(th) == Target
TempName(th) == th

Paths == {Target} \cup Threads

\* --------------------------------------------------------------- datetimes
NoTime == [t |-> -1, tz |-> "none"]
\* datetime.now(timezone.utc)
UtcNow(clock) == [t |-> clock, tz |-> "utc"]
\* datetime.now()
NaiveNow(clock) == [t |-> clock, tz |-> "naive"]

NoIso == [text |-> -1, offset |-> "none"]
\* An isoformat that leaves the UTC offset out.
IsoFormatNoOffset(dt) == [text |-> dt.t, offset |-> ""]
\* datetime.isoformat(): the digits, and "+00:00" for an aware datetime.
IsoFormat(dt) == [text |-> dt.t, offset |-> IF dt.tz = "utc" THEN "+00:00" ELSE ""]
\* datetime.fromisoformat(): aware iff the text carries an offset.
FromIsoFormat(s) == [t |-> s.text, tz |-> IF s.offset = "+00:00" THEN "utc" ELSE "naive"]

\* ---------------------------------------------------------------- JSON text
Chunk(c, iso) == [c |-> c, iso |-> iso, num |-> 0]
OpenBrace == Chunk("{", NoIso)
CloseBrace == Chunk("}", NoIso)
VersionEntry(v) == [c |-> "version", iso |-> NoIso, num |-> v]
LastResetEntry(iso) == Chunk("last_reset", iso)
Garbage == Chunk("invalid json", NoIso)

NoData == [last_reset |-> NoIso, version |-> 0]
\* A record of another version.
MakeDataVersion2(dt) == [last_reset |-> IsoFormat(dt), version |-> VERSION + 1]
\* data = {"last_reset": self.last_reset.isoformat(), "version": 1}
MakeData(dt) == [last_reset |-> IsoFormat(dt), version |-> VERSION]

\* json.dump(data, tf): the text of the object, chunk by chunk.
JsonDump(d) ==
    << OpenBrace, LastResetEntry(d.last_reset), VersionEntry(d.version), CloseBrace >>

\* The proper prefixes of a text: what a write that failed half way leaves.
ProperPrefixes(text) == { SubSeq(text, 1, n) : n \in 0..(Len(text) - 1) }

\* json.load(f) succeeds on a text that is one object: "{", entries, "}".
JsonValid(text) ==
    /\ Len(text) >= 2
    /\ text[1] = OpenBrace
    /\ text[Len(text)] = CloseBrace
    /\ \A i \in 2..(Len(text) - 1) : text[i].c \in {"last_reset", "version"}

\* data.get("last_reset") of the parsed object: the value, or NoIso for None.
JsonGetLastReset(text) ==
    IF \E i \in 2..(Len(text) - 1) : text[i].c = "last_reset"
    THEN (CHOOSE e \in { text[i] : i \in 2..(Len(text) - 1) } : e.c = "last_reset").iso
    ELSE NoIso

\* data["version"] of the parsed object, or 0 when it has none.
JsonGetVersion(text) ==
    IF \E i \in 2..(Len(text) - 1) : text[i].c = "version"
    THEN (CHOOSE e \in { text[i] : i \in 2..(Len(text) - 1) } : e.c = "version").num
    ELSE 0

\* ------------------------------------------------------------------- files
NoFile == [exists |-> FALSE, readable |-> FALSE, content |-> << >>]
File(text) == [exists |-> TRUE, readable |-> TRUE, content |-> text]
RecordFile(dt) == File(JsonDump(MakeData(dt)))

\* A file that holds one complete record: a JSON object with a last_reset.
IsCompleteRecord(f) ==
    /\ f.exists
    /\ f.readable
    /\ JsonValid(f.content)
    /\ JsonGetLastReset(f.content) # NoIso

\* The outcome of a call that an exception leaves: no datetime is returned.
Raised == [t |-> -2, tz |-> "raised"]

\* A load without the handlers of lines 285-296: a file that cannot be read
\* or parsed makes it raise.
load_state_unguarded(f, clock) ==
    IF ~f.exists THEN UtcNow(clock)
    ELSE IF ~f.readable \/ ~JsonValid(f.content) THEN Raised
    ELSE IF JsonGetLastReset(f.content) # NoIso
         THEN FromIsoFormat(JsonGetLastReset(f.content))
         ELSE UtcNow(clock)

\* A load that cannot parse an ISO text with a UTC offset and falls back.
load_state_no_offset(f, clock) ==
    IF ~f.exists \/ ~f.readable \/ ~JsonValid(f.content) THEN UtcNow(clock)
    ELSE IF JsonGetLastReset(f.content) # NoIso
            /\ JsonGetLastReset(f.content).offset = ""
         THEN FromIsoFormat(JsonGetLastReset(f.content))
         ELSE UtcNow(clock)

\* DNSCounter.load_state: the stored datetime, or the current time when the
\* file is missing, unreadable, not JSON, or has no last_reset.
load_state(f, clock) ==
    IF ~f.exists THEN UtcNow(clock)
    ELSE IF ~f.readable THEN UtcNow(clock)
    ELSE IF ~JsonValid(f.content) THEN UtcNow(clock)
    ELSE IF JsonGetLastReset(f.content) # NoIso
         THEN FromIsoFormat(JsonGetLastReset(f.content))
         ELSE UtcNow(clock)

\* What the persisted file may hold when the process starts.
AllInitialFiles ==
    { NoFile,
      File(<< >>),
      File(<< OpenBrace, Garbage >>),
      File(<< OpenBrace, CloseBrace >>),
      File(<< OpenBrace, VersionEntry(VERSION), CloseBrace >>),
      RecordFile(UtcNow(BootTime - 1)),
      RecordFile(NaiveNow(BootTime - 1)),
      [RecordFile(UtcNow(BootTime - 1)) EXCEPT !.readable = FALSE] }

\* ------------------------------------------------------------- durations
\* A timedelta, normalised as Python keeps it: any days, 0 <= seconds < 86400,
\* 0 <= microseconds < 1000000.
Timedelta(d, sec, us) == [days |-> d, seconds |-> sec, microseconds |-> us]
NoDuration == Timedelta(0, -1, 0)

\* a - b of two datetimes (clock readings in units of 100 ms).
Subtract(a, b) ==
    Timedelta((a.t - b.t) \div 864000,
              ((a.t - b.t) % 864000) \div 10,
              ((a.t - b.t) % 10) * 100000)
\* a - b raises TypeError when one is aware and the other naive.
CanSubtract(a, b) == a.tz = b.tz

\* A number of seconds beyond 32 bits (100 years are 3153600000 s), kept
\* as hi * 86400 + lo with 0 <= lo < 86400.
Seconds(hi, lo) == [hi |-> hi, lo |-> lo]
\* x // 3600, x % 3600 and x % 60 of such a number, with Python's floor
\* division (86400 is a multiple of 3600 and of 60).
FloorDiv3600(x) == x.hi * 24 + x.lo \div 3600
Mod3600(x) == x.lo % 3600
Mod60(x) == x.lo % 60

\* int(duration.total_seconds()): total_seconds() is days * 86400 + seconds
\* + microseconds / 10^6, and int() truncates toward zero: down for a
\* duration that is not negative, up for a negative one.
TotalSeconds(td) ==
    LET up == IF td.days < 0 /\ td.microseconds > 0 THEN 1 ELSE 0
    IN  IF td.seconds + up = 86400
        THEN Seconds(td.days + 1, 0)
        ELSE Seconds(td.days, td.seconds + up)

\* A string is the sequence of its characters.
DigitChars == << "0", "1", "2", "3", "4", "5", "6", "7", "8", "9" >>
Digit(k) == DigitChars[k + 1]

\* The decimal digits of a natural number.
RECURSIVE Decimal(_)
Decimal(n) == IF n < 10 THEN << Digit(n) >> ELSE Decimal(n \div 10) \o << Digit(n % 10) >>

\* A format without the zero padding, f"{n:d}".
FormatUnpadded(n) == IF n < 0 THEN << "-" >> \o Decimal(-n) ELSE Decimal(n)

\* f"{n:02d}": the sign of a negative n and the decimal digits of n, padded
\* with zeros on the left to a width of at least two characters.
Format02d(n) ==
    IF n < 0 THEN << "-" >> \o Decimal(-n)
    ELSE IF n < 10 THEN << "0" >> \o Decimal(n)
    ELSE Decimal(n)

\* f"{years:02d}y {months:02d}mo {days:02d}d"
Line1(years, months, days) ==
    Format02d(years) \o << "y", " " >> \o Format02d(months)
       \o << "m", "o", " " >> \o Format02d(days) \o << "d" >>

\* f"{hours:02d}h {minutes:02d}m {seconds:02d}s"
Line2(hours, minutes, seconds) ==
    Format02d(hours) \o << "h", " " >> \o Format02d(minutes)
       \o << "m", " " >> \o Format02d(seconds) \o << "s" >>

NoLines == [line1 |-> << >>, line2 |-> << >>]

\* A formatter that takes the months from all the days, not from the days
\* left after the years.
format_duration_months_of_all_days(td) ==
    [line1 |-> Line1(td.days \div 365, td.days \div 30, (td.days % 365) % 30),
     line2 |-> Line2(FloorDiv3600(TotalSeconds(td)) % 24,
                     Mod3600(TotalSeconds(td)) \div 60,
                     Mod60(TotalSeconds(td)))]

\* A formatter that rejects an elapsed time below zero: it raises, and no
\* lines come back.
format_duration_rejecting_negative(td) ==
    IF td.days < 0 THEN NoLines
    ELSE [line1 |-> Line1(td.days \div 365, (td.days % 365) \div 30,
                          (td.days % 365) % 30),
          line2 |-> Line2(FloorDiv3600(TotalSeconds(td)) % 24,
                          Mod3600(TotalSeconds(td)) \div 60,
                          Mod60(TotalSeconds(td)))]

\* A formatter whose hours are all the hours of the elapsed time, not the
\* hours of the day.
format_duration_hours_of_total(td) ==
    [line1 |-> Line1(td.days \div 365, (td.days % 365) \div 30,
                     (td.days % 365) % 30),
     line2 |-> Line2(FloorDiv3600(TotalSeconds(td)),
                     Mod3600(TotalSeconds(td)) \div 60,
                     Mod60(TotalSeconds(td)))]

\* DNSCounter.format_duration
format_duration(td) ==
    LET total_seconds == TotalSeconds(td)
        years   == td.days \div 365
        months  == (td.days % 365) \div 30
        days    == (td.days % 365) % 30
        hours   == FloorDiv3600(total_seconds) % 24
        minutes == Mod3600(total_seconds) \div 60
        seconds == Mod60(total_seconds)
    IN  [line1 |-> Line1(years, months, days),
         line2 |-> Line2(hours, minutes, seconds)]

\* What /api/state got from get_last_reset on its last call, and whether the
\* origin was assigned since.
NoRead == [value |-> NoTime, assigned_since |-> FALSE]
\* The origin is assigned: a value read earlier is now followed by a reset.
Assigned(r) == [r EXCEPT !.assigned_since = (r.value # NoTime)]

\* ------------------------------------------------------------------- state
\* ------------------------------------------------------------ load_config
\* The keys of the configuration file that the program recognizes.
ConfigKeys == { "gpio_pin", "brightness", "audio_file", "web_port",
                "persistence_file", "log_level" }

\* A configured value is the key's default, another usable value ("custom")
\* or a value the key's consumer cannot use ("malformed": a pin that is not
\* a line number, a brightness outside 1..100, a level logging does not know).
DEFAULT_CONFIG == [k \in ConfigKeys |-> "default"]

\* What is at config_path: nothing, text that is not YAML, an empty document,
\* a document that is not a mapping, or a mapping of some keys.
NoConfigFile == [kind |-> "missing", entries |-> << >>]
InvalidYaml == [kind |-> "invalid", entries |-> << >>]
EmptyYaml == [kind |-> "empty", entries |-> << >>]
NotAMapping == [kind |-> "list", entries |-> << >>]
Mapping(entries) == [kind |-> "mapping", entries |-> entries]

\* load_config: a non-empty mapping is merged over the defaults
\* (config.update(loaded_config): every loaded value overrides, unexamined);
\* an empty document, a missing file, a YAML error or any other exception
\* (update of a non-mapping) gives the defaults.
load_config(file) ==
    IF file.kind = "mapping" /\ DOMAIN file.entries # {}
    THEN [k \in ConfigKeys |->
            IF k \in DOMAIN file.entries
            THEN file.entries[k] ELSE DEFAULT_CONFIG[k]]
    ELSE DEFAULT_CONFIG

\* The value of key k the program works with.  Only log_level is examined
\* (lines 173-180): a level that logging does not know falls back to INFO,
\* the default.  Every other key is used as loaded.
Used(cfg, k) ==
    IF k = "log_level" /\ cfg[k] = "malformed" THEN DEFAULT_CONFIG[k]
    ELSE cfg[k]

VARIABLES
    now,            \* the clock, in units of 100 ms
    fs,             \* the directory of the persisted file: path -> file
    last_reset,     \* DNSCounter.last_reset
    pc,             \* thread -> where it is
    data,           \* thread -> local `data` of its save
    new_reset,      \* thread -> local `new_reset` of reset_timer
    own,            \* thread -> the datetime its current reset assigned
    effects,        \* thread -> side effects of its current reset so far
    last_value,     \* _check_button: last observed line value (-1 is None)
    last_press,     \* _check_button: time of the last accepted press
    current_time,   \* _check_button: time.time() of the last press edge
    lock,           \* WebServer._lock: the thread that holds it, or "free"
    boots,          \* how often the DNSCounter process was started again
    render_pc,      \* DNSCounter.run: where the display loop is
    duration,       \* DNSCounter.run: local `duration` of the last draw
    canvas,         \* the two time lines on the display
    read,           \* what get_last_reset returned to the last /api/state
    config,         \* DNSCounter.config: key -> the value load_config gave
    errors          \* _check_button: errors its `except` has logged so far

vars == << now, fs, last_reset, pc, data, new_reset, own, effects,
           last_value, last_press, current_time, lock, boots,
           render_pc, duration, canvas, read, config, errors >>

renderVars == << render_pc, duration, canvas >>

buttonVars == << last_value, last_press, current_time >>

\* A thread between two triggers: all locals out of scope.
IdlePc(th) == IF th = ButtonThread THEN "poll" ELSE "idle"

InitProcessVars(file) ==
    /\ now = BootTime
    /\ fs = [p \in Paths |-> IF p = Target THEN file ELSE NoFile]
    /\ last_reset = load_state(file, BootTime)
    /\ pc = [th \in Threads |-> IdlePc(th)]
    /\ data = [th \in Threads |-> NoData]
    /\ new_reset = [th \in Threads |-> NoTime]
    /\ own = [th \in Threads |-> NoTime]
    /\ effects = [th \in Threads |-> {}]
    /\ last_value = -1
    /\ last_press = 0
    /\ current_time = 0
    /\ lock = "free"
    /\ boots = 0

InitProcess(file) ==
    /\ InitProcessVars(file)
    /\ render_pc = "draw"
    /\ duration = NoDuration
    /\ canvas = NoLines
    /\ read = NoRead
    /\ config = load_config(NoConfigFile)
    /\ errors = 0

\* The whole process starts with no file or with the record of an earlier run.
InitialFiles == { NoFile, RecordFile(UtcNow(BootTime - 1)) }

Init == \E file \in InitialFiles : InitProcess(file)

\* A temp file left behind by a save that failed stays on disk under a name
\* no later save uses; it leaves the model once its thread is past the save.
Forget(f, th) ==
    IF TempName(th) = Target THEN f ELSE [f EXCEPT ![TempName(th)] = NoFile]

\* --------------------------------------------------- DNSCounter.save_state
\* A save_state that lets the exception out: it ends the caller's handler
\* (the button loop's `except`, reset_timer's `except`).
SaveFailedRaises(th) ==
    /\ pc' = [pc EXCEPT ![th] = IF th = ButtonThread THEN "sleep" ELSE "done"]
    /\ data' = [data EXCEPT ![th] = NoData]
    /\ effects' = [effects EXCEPT ![th] = @ \cup {"save_failed"}]

\* `except Exception`: log, return to the caller (which goes on to the audio).
SaveFailed(th) ==
    /\ pc' = [pc EXCEPT ![th] = "audio"]
    /\ data' = [data EXCEPT ![th] = NoData]
    /\ effects' = [effects EXCEPT ![th] = @ \cup {"save_failed"}]

\* A save that stamps the record with the time of the save.
SavedOriginIsClock == UtcNow(now)
\* The datetime a save puts into its record: self.last_reset as it is when
\* `data` is built (line 234).
SavedOrigin == last_reset

\* data = {...self.last_reset.isoformat()...}; NamedTemporaryFile(...)
save_state_begin(th) ==
    /\ th \in CounterThreads
    /\ pc[th] = "save_begin"
    /\ \/ /\ fs' = [fs EXCEPT ![TempName(th)] = File(<< >>)]
          /\ data' = [data EXCEPT ![th] = MakeData(SavedOrigin)]
          /\ pc' = [pc EXCEPT ![th] = "save_write"]
          /\ UNCHANGED effects
       \/ /\ SaveFailed(th)
          /\ UNCHANGED fs
    /\ UNCHANGED << renderVars, read >>
    /\ UNCHANGED << now, last_reset, new_reset, own, buttonVars, lock, boots >>
    /\ UNCHANGED << config, errors >>

\* json.dump(data, tf) and the close of the with block.
save_state_write(th) ==
    /\ th \in CounterThreads
    /\ pc[th] = "save_write"
    /\ \/ /\ fs' = [fs EXCEPT ![TempName(th)] = File(JsonDump(data[th]))]
          /\ pc' = [pc EXCEPT ![th] = "save_rename"]
          /\ UNCHANGED << data, effects >>
       \/ /\ \E part \in ProperPrefixes(JsonDump(data[th])) :
                fs' = [fs EXCEPT ![TempName(th)] = File(part)]
          /\ SaveFailed(th)
    /\ UNCHANGED << renderVars, read >>
    /\ UNCHANGED << now, last_reset, new_reset, own, buttonVars, lock, boots >>
    /\ UNCHANGED << config, errors >>

\* os.rename(src, dst): dst names src's file, src is gone.
Rename(f, src, dst) ==
    IF src = dst THEN f
    ELSE [f EXCEPT ![dst] = f[src], ![src] = NoFile]

\* os.rename(tf.name, self.persistence_file)
save_state_rename(th) ==
    /\ th \in CounterThreads
    /\ pc[th] = "save_rename"
    /\ \/ /\ fs' = Rename(fs, TempName(th), Target)
          /\ pc' = [pc EXCEPT ![th] = "audio"]
          /\ data' = [data EXCEPT ![th] = NoData]
          /\ effects' = [effects EXCEPT ![th] = @ \cup {"save_ok"}]
       \/ /\ SaveFailed(th)
          /\ UNCHANGED fs
    /\ UNCHANGED << renderVars, read >>
    /\ UNCHANGED << now, last_reset, new_reset, own, buttonVars, lock, boots >>
    /\ UNCHANGED << config, errors >>

\* ------------------------------------------------- DNSCounter._check_button
DebounceElapsedInclusive(cur, last) == cur - last >= DEBOUNCE
\* The debounce test of line 857.
DebounceElapsed(cur, last) == cur - last > DEBOUNCE

\* A poll that looks at the level of the line, not at its edge: every poll
\* that reads pressed outside the debounce window is taken as a press.
PollValueLevelTriggered(value) ==
    /\ pc[ButtonThread] = "poll"
    /\ last_value' = value
    /\ IF value = 0
       THEN /\ current_time' = now
            /\ IF DebounceElapsed(now, last_press)
               THEN /\ last_reset' = UtcNow(now)
                    /\ effects' = [effects EXCEPT ![ButtonThread] =
                         (IF PROMETHEUS_AVAILABLE THEN {"metric"} ELSE {})
                         \cup {"origin"}]
                    /\ pc' = [pc EXCEPT ![ButtonThread] = "save_begin"]
                    /\ read' = Assigned(read)
               ELSE /\ pc' = [pc EXCEPT ![ButtonThread] = "sleep"]
                    /\ UNCHANGED << last_reset, effects, read >>
       ELSE /\ pc' = [pc EXCEPT ![ButtonThread] = "sleep"]
            /\ UNCHANGED << current_time, last_reset, effects, read >>
    /\ UNCHANGED renderVars
    /\ UNCHANGED << now, fs, data, new_reset, own, last_press, lock, boots >>
    /\ UNCHANGED << config, errors >>

\* One poll of the line: value = self._get_button_value() (1 released,
\* 0 pressed) and the edge logic.  An accepted press increments
\* RESET_COUNTER{button}, assigns self.last_reset and goes on into
\* save_state; anything else goes to time.sleep(0.1).  last_press is written
\* only after the audio (line 901).
PollValue(value) ==
    /\ pc[ButtonThread] = "poll"
    /\ IF value # last_value
       THEN /\ last_value' = value
            /\ IF value = 0
               THEN /\ current_time' = now
                    /\ IF DebounceElapsed(now, last_press)
                       THEN /\ last_reset' = UtcNow(now)
                            /\ effects' = [effects EXCEPT ![ButtonThread] =
                                 (IF PROMETHEUS_AVAILABLE THEN {"metric"} ELSE {})
                                 \cup {"origin"}]
                            /\ pc' = [pc EXCEPT ![ButtonThread] = "save_begin"]
                            /\ read' = Assigned(read)
                       ELSE /\ pc' = [pc EXCEPT ![ButtonThread] = "sleep"]
                            /\ UNCHANGED << last_reset, effects, read >>
               ELSE /\ pc' = [pc EXCEPT ![ButtonThread] = "sleep"]
                    /\ UNCHANGED << current_time, last_reset, effects, read >>
       ELSE /\ pc' = [pc EXCEPT ![ButtonThread] = "sleep"]
            /\ UNCHANGED << last_value, current_time, last_reset, effects, read >>
    /\ UNCHANGED renderVars
    /\ UNCHANGED << now, fs, data, new_reset, own, last_press, lock, boots >>
    /\ UNCHANGED << config, errors >>

\* The line reads whatever the button does at the time of the poll.
Poll == \E value \in {0, 1} : PollValue(value)

\* A loop whose handler is around `while True` instead of inside it: the
\* exception is logged and the thread is over.
PollFailedEndsThread ==
    /\ pc' = [pc EXCEPT ![ButtonThread] = "ended"]
    /\ errors' = errors + 1

\* `except Exception` of lines 903-905, inside `while True`: the error is
\* logged, time.sleep(0.1), and the loop goes into its next iteration.
PollFailed ==
    /\ pc' = [pc EXCEPT ![ButtonThread] = "sleep"]
    /\ errors' = errors + 1

\* One poll in which self._get_button_value() (line 850) raises: nothing
\* after the read is executed, last_value keeps what it had.
PollRaises ==
    /\ pc[ButtonThread] = "poll"
    /\ errors < MaxPollErrors
    /\ PollFailed
    /\ UNCHANGED << now, fs, last_reset, data, new_reset, own, effects,
                    buttonVars, lock, boots, renderVars, read, config >>

PressReferenceAfterAudio == now
\* The new debounce reference of line 901: the time the press was observed.
PressReference == current_time

\* subprocess.run(aplay_cmd): the audio is attempted; a failure is logged.
\* Then last_press = current_time, and time.sleep(0.1).
ButtonAudio ==
    /\ pc[ButtonThread] = "audio"
    /\ effects' = [effects EXCEPT ![ButtonThread] = @ \cup {"audio"}]
    /\ last_press' = PressReference
    /\ pc' = [pc EXCEPT ![ButtonThread] = "sleep"]
    /\ fs' = Forget(fs, ButtonThread)
    /\ UNCHANGED << renderVars, read >>
    /\ UNCHANGED << now, last_reset, data, new_reset, own,
                    last_value, current_time, lock, boots >>
    /\ UNCHANGED << config, errors >>

\* The clock advances by 100 ms; a pending time.sleep(0.1) ends, and with it
\* the iteration of the button loop that handled the last press.
Tick(limit) ==
    /\ now < limit
    /\ now' = now + 1
    /\ IF pc[ButtonThread] = "sleep"
       THEN /\ pc' = [pc EXCEPT ![ButtonThread] = "poll"]
            /\ effects' = [effects EXCEPT ![ButtonThread] = {}]
       ELSE UNCHANGED << pc, effects >>
    /\ UNCHANGED << renderVars, read >>
    /\ UNCHANGED << fs, last_reset, data, new_reset, own, buttonVars,
                    lock, boots >>
    /\ UNCHANGED << config, errors >>

\* ------------------------------------- WebServer.reset_timer with callback
\* POST /api/reset: RESET_COUNTER{web}.inc(), then self._reset_callback(),
\* which is DNSCounter.reset: self.last_reset = datetime.now(timezone.utc).
reset_begin(th) ==
    /\ th \in ReqThreads
    /\ pc[th] = "idle"
    /\ last_reset' = UtcNow(now)
    /\ own' = [own EXCEPT ![th] = UtcNow(now)]
    /\ effects' = [effects EXCEPT ![th] = {"metric", "origin"}]
    /\ pc' = [pc EXCEPT ![th] = "save_begin"]
    /\ read' = Assigned(read)
    /\ UNCHANGED renderVars
    /\ UNCHANGED << now, fs, data, new_reset, buttonVars, lock, boots >>
    /\ UNCHANGED << config, errors >>

\* Line 307 at the grain of the interpreter: datetime.now(timezone.utc) is
\* evaluated first (RESET_COUNTER{web} is incremented before the callback) ...
reset_now(th) ==
    /\ th \in ReqThreads
    /\ pc[th] = "idle"
    /\ own' = [own EXCEPT ![th] = UtcNow(now)]
    /\ effects' = [effects EXCEPT ![th] = {"metric"}]
    /\ pc' = [pc EXCEPT ![th] = "store"]
    /\ UNCHANGED << now, fs, last_reset, data, new_reset, buttonVars, lock, boots >>
    /\ UNCHANGED << renderVars, read >>
    /\ UNCHANGED << config, errors >>

\* ... and stored in self.last_reset in a later step of the thread; no lock
\* is held between the two.
reset_store(th) ==
    /\ th \in ReqThreads
    /\ pc[th] = "store"
    /\ last_reset' = own[th]
    /\ effects' = [effects EXCEPT ![th] = @ \cup {"origin"}]
    /\ pc' = [pc EXCEPT ![th] = "save_begin"]
    /\ read' = Assigned(read)
    /\ UNCHANGED << now, fs, data, new_reset, own, buttonVars, lock, boots >>
    /\ UNCHANGED renderVars
    /\ UNCHANGED << config, errors >>

\* What DNSCounter.reset returns (line 340).
ResetReturnValue(th) == last_reset

\* DNSCounter.reset after save_state: the audio, then `return
\* self.last_reset`; reset_timer keeps it as new_reset for the response.
reset_finish(th) ==
    /\ th \in ReqThreads
    /\ pc[th] = "audio"
    /\ effects' = [effects EXCEPT ![th] = @ \cup {"audio"}]
    /\ new_reset' = [new_reset EXCEPT ![th] = ResetReturnValue(th)]
    /\ pc' = [pc EXCEPT ![th] = "done"]
    /\ fs' = Forget(fs, th)
    /\ UNCHANGED << renderVars, read >>
    /\ UNCHANGED << now, last_reset, data, own, buttonVars, lock, boots >>
    /\ UNCHANGED << config, errors >>

\* The response is sent; the handler's locals go out of scope.
Respond(th) ==
    /\ th \in Threads \ {ButtonThread}
    /\ pc[th] = "done"
    /\ pc' = [pc EXCEPT ![th] = "idle"]
    /\ new_reset' = [new_reset EXCEPT ![th] = NoTime]
    /\ own' = [own EXCEPT ![th] = NoTime]
    /\ effects' = [effects EXCEPT ![th] = {}]
    /\ fs' = Forget(fs, th)
    /\ UNCHANGED << renderVars, read >>
    /\ UNCHANGED << now, last_reset, data, buttonVars, lock, boots >>
    /\ UNCHANGED << config, errors >>

\* ----------------------------------------- GET /api/state with callback
\* A read of the origin that goes to the persisted file.
get_last_reset_from_file == load_state(fs[Target], now)
\* DNSCounter.get_last_reset: return self.last_reset
get_last_reset == last_reset

\* WebServer.get_state: last_reset = self._get_state_callback(), and the
\* response with its ISO text.
get_state ==
    /\ read' = [value |-> get_last_reset, assigned_since |-> FALSE]
    /\ UNCHANGED << now, fs, last_reset, pc, data, new_reset, own, effects,
                    buttonVars, lock, boots, renderVars >>
    /\ UNCHANGED << config, errors >>

\* ------------------------------------------- webui/routes.py reset_counter
\* POST /api/v1/reset: counter.last_reset = datetime.now(), and the response.
reset_counter ==
    /\ pc[V1Thread] = "idle"
    /\ last_reset' = NaiveNow(now)
    /\ effects' = [effects EXCEPT ![V1Thread] = {"origin"}]
    /\ pc' = [pc EXCEPT ![V1Thread] = "done"]
    /\ read' = Assigned(read)
    /\ UNCHANGED renderVars
    /\ UNCHANGED << now, fs, data, new_reset, own, buttonVars, lock, boots >>
    /\ UNCHANGED << config, errors >>

\* ------------------------------------------------------- crash and restart
\* The DNSCounter process is killed at any point and started again: each of
\* its threads starts over, DNSCounter.__init__ loads last_reset from the
\* persisted file.  The persisted file stays as it is; the temp files the
\* killed threads leave on disk are never used again and leave the model.
CrashRestart ==
    /\ boots < MaxBoots
    /\ boots' = boots + 1
    /\ fs' = [p \in Paths |-> IF p \in CounterProcess THEN NoFile ELSE fs[p]]
    /\ last_reset' = load_state(fs[Target], now)
    /\ pc' = [th \in Threads |-> IF th \in CounterProcess THEN IdlePc(th) ELSE pc[th]]
    /\ data' = [th \in Threads |-> IF th \in CounterProcess THEN NoData ELSE data[th]]
    /\ new_reset' = [th \in Threads |->
                       IF th \in CounterProcess THEN NoTime ELSE new_reset[th]]
    /\ own' = [th \in Threads |-> IF th \in CounterProcess THEN NoTime ELSE own[th]]
    /\ effects' = [th \in Threads |-> IF th \in CounterProcess THEN {} ELSE effects[th]]
    /\ last_value' = -1
    /\ last_press' = 0
    /\ current_time' = 0
    /\ render_pc' = "draw"
    /\ duration' = NoDuration
    /\ canvas' = NoLines
    /\ read' = NoRead
    /\ errors' = 0
    /\ UNCHANGED << now, lock, config >>

\* ---------------------------------- WebServer.reset_timer, standalone mode
\* POST /api/reset with no callback: RESET_COUNTER{web}.inc(), then
\* new_reset = datetime.now(timezone.utc), and on into self._save_state.
standalone_reset_begin(th) ==
    /\ th \in StandaloneThreads
    /\ pc[th] = "idle"
    /\ new_reset' = [new_reset EXCEPT ![th] = UtcNow(now)]
    /\ effects' = [effects EXCEPT ![th] = {"metric"}]
    /\ pc' = [pc EXCEPT ![th] = "ws_save_begin"]
    /\ UNCHANGED << renderVars, read >>
    /\ UNCHANGED << now, fs, last_reset, data, own, buttonVars, lock, boots >>
    /\ UNCHANGED << config, errors >>

\* WebServer._save_state, `except Exception: ... raise`: the lock is released,
\* the exception leaves _save_state, and reset_timer's own handler answers
\* 500 without calling self._play_audio().
WsSaveFailed(th) ==
    /\ pc' = [pc EXCEPT ![th] = "done"]
    /\ data' = [data EXCEPT ![th] = NoData]
    /\ effects' = [effects EXCEPT ![th] = @ \cup {"save_failed"}]
    /\ lock' = "free"

\* with self._lock: data = {...}; NamedTemporaryFile(...)
ws_save_begin(th) ==
    /\ th \in StandaloneThreads
    /\ pc[th] = "ws_save_begin"
    /\ lock = "free"
    /\ \/ /\ lock' = th
          /\ fs' = [fs EXCEPT ![TempName(th)] = File(<< >>)]
          /\ data' = [data EXCEPT ![th] = MakeData(new_reset[th])]
          /\ pc' = [pc EXCEPT ![th] = "ws_save_write"]
          /\ UNCHANGED effects
       \/ /\ WsSaveFailed(th)
          /\ UNCHANGED fs
    /\ UNCHANGED << renderVars, read >>
    /\ UNCHANGED << now, last_reset, new_reset, own, buttonVars, boots >>
    /\ UNCHANGED << config, errors >>

\* json.dump(data, tf) and the close of the with block.
ws_save_write(th) ==
    /\ th \in StandaloneThreads
    /\ pc[th] = "ws_save_write"
    /\ \/ /\ fs' = [fs EXCEPT ![TempName(th)] = File(JsonDump(data[th]))]
          /\ pc' = [pc EXCEPT ![th] = "ws_save_rename"]
          /\ UNCHANGED << data, effects, lock, boots >>
       \/ /\ \E part \in ProperPrefixes(JsonDump(data[th])) :
                fs' = [fs EXCEPT ![TempName(th)] = File(part)]
          /\ WsSaveFailed(th)
    /\ UNCHANGED << renderVars, read >>
    /\ UNCHANGED << now, last_reset, new_reset, own, buttonVars, boots >>
    /\ UNCHANGED << config, errors >>

\* os.rename(tf.name, self.persistence_file), and the lock is released.
ws_save_rename(th) ==
    /\ th \in StandaloneThreads
    /\ pc[th] = "ws_save_rename"
    /\ \/ /\ fs' = Rename(fs, TempName(th), Target)
          /\ pc' = [pc EXCEPT ![th] = "play_audio"]
          /\ data' = [data EXCEPT ![th] = NoData]
          /\ effects' = [effects EXCEPT ![th] = @ \cup {"save_ok"}]
          /\ lock' = "free"
       \/ /\ WsSaveFailed(th)
          /\ UNCHANGED fs
    /\ UNCHANGED << renderVars, read >>
    /\ UNCHANGED << now, last_reset, new_reset, own, buttonVars, boots >>
    /\ UNCHANGED << config, errors >>

\* WebServer._play_audio: nothing is played when the audio file is missing;
\* otherwise aplay is run and a failure is logged.  Then the response.
play_audio(th) ==
    /\ th \in StandaloneThreads
    /\ pc[th] = "play_audio"
    /\ \E audio_file_exists \in BOOLEAN :
          effects' = [effects EXCEPT ![th] =
                        IF audio_file_exists THEN @ \cup {"audio"} ELSE @]
    /\ pc' = [pc EXCEPT ![th] = "done"]
    /\ UNCHANGED << renderVars, read >>
    /\ UNCHANGED << now, fs, last_reset, data, new_reset, own, buttonVars, lock, boots >>
    /\ UNCHANGED << config, errors >>

\* ------------------------------------------------------- DNSCounter.run
\* `except Exception` of run: log, release the line, self.matrix.Clear(),
\* raise.  The display loop is over.
RenderFailed ==
    /\ render_pc' = "ended"
    /\ canvas' = NoLines

\* A display loop that shares a lock with the reset of the button thread: a
\* pass starts only when no button-triggered reset is in progress.
render_elapsed_waiting_for_reset ==
    /\ render_pc = "draw"
    /\ pc[ButtonThread] \notin {"save_begin", "save_write", "save_rename", "audio"}
    /\ IF CanSubtract(UtcNow(now), last_reset)
       THEN /\ duration' = Subtract(UtcNow(now), last_reset)
            /\ render_pc' = "format"
            /\ UNCHANGED canvas
       ELSE /\ RenderFailed
            /\ UNCHANGED duration
    /\ UNCHANGED << now, fs, last_reset, pc, data, new_reset, own, effects,
                    buttonVars, lock, boots, read >>
    /\ UNCHANGED << config, errors >>

\* One pass of `while True` down to line 695: the frame canvas is cleared,
\* the header drawn, duration = datetime.now(timezone.utc) - self.last_reset.
\* The subtraction raises TypeError when last_reset is naive.
render_elapsed ==
    /\ render_pc = "draw"
    /\ IF CanSubtract(UtcNow(now), last_reset)
       THEN /\ duration' = Subtract(UtcNow(now), last_reset)
            /\ render_pc' = "format"
            /\ UNCHANGED canvas
       ELSE /\ RenderFailed
            /\ UNCHANGED duration
    /\ UNCHANGED << now, fs, last_reset, pc, data, new_reset, own, effects,
                    buttonVars, lock, boots, read >>
    /\ UNCHANGED << config, errors >>

\* A display pass that also writes: once the frame is shown it moves the
\* origin to the time of the frame.
render_format_moving_origin ==
    /\ render_pc = "format"
    /\ \/ /\ canvas' = format_duration(duration)
          /\ render_pc' = "sleep"
       \/ RenderFailed
    /\ last_reset' = UtcNow(now)
    /\ UNCHANGED << now, fs, pc, data, new_reset, own, effects,
                    buttonVars, lock, boots, duration, read >>
    /\ UNCHANGED << config, errors >>

\* Lines 696-719: the two lines of format_duration are drawn and the frame
\* is swapped onto the display; or a draw raises.
render_format ==
    /\ render_pc = "format"
    /\ \/ /\ canvas' = format_duration(duration)
          /\ render_pc' = "sleep"
       \/ RenderFailed
    /\ UNCHANGED << now, fs, last_reset, pc, data, new_reset, own, effects,
                    buttonVars, lock, boots, duration, read >>
    /\ UNCHANGED << config, errors >>

\* time.sleep(1) returns.
render_wake ==
    /\ render_pc = "sleep"
    /\ render_pc' = "draw"
    /\ UNCHANGED << now, fs, last_reset, pc, data, new_reset, own, effects,
                    buttonVars, lock, boots, duration, canvas, read >>
    /\ UNCHANGED << config, errors >>

\* ------------------------------------------------- DNSCounter.__init__
\* The keys whose malformed value can raise out of __init__: brightness
\* (the options of RGBMatrix, whose failure is re-raised at line 209) and
\* persistence_file (os.path.exists of line 261, outside the try of
\* load_state, raises TypeError for a value that is not a path).
FatalKeys == { "brightness", "persistence_file" }

\* The persisted file as the configured path shows it: a malformed path
\* names no file.
ConfiguredFile ==
    IF Used(config, "persistence_file") = "malformed" THEN NoFile ELSE fs[Target]

\* __init__ from the log level down to load_state (lines 172-213): the
\* matrix is initialized and the origin is loaded.  With a malformed value
\* of a fatal key the constructor may raise; the process then ends in
\* __main__ (lines 951-953).
DNSCounter_init ==
    /\ render_pc = "init"
    /\ \/ /\ last_reset' = load_state(ConfiguredFile, now)
          /\ render_pc' = "setup_gpio"
       \/ /\ \E k \in FatalKeys : Used(config, k) = "malformed"
          /\ render_pc' = "aborted"
          /\ UNCHANGED last_reset
    /\ UNCHANGED << now, fs, pc, data, new_reset, own, effects, buttonVars,
                    lock, boots, duration, canvas, read, config, errors >>

\* ------------------------------------------------- DNSCounter.setup_gpio
\* A setup_gpio that lets the exception of the request out of __init__.
GpioUnavailableRaises ==
    /\ pc' = [pc EXCEPT ![ButtonThread] = "off"]
    /\ render_pc' = "aborted"

\* `except Exception` of lines 787-791: two errors are logged, chip and
\* line are None, no thread was created; setup_gpio returns and __main__
\* goes on to run().
GpioUnavailable ==
    /\ pc' = [pc EXCEPT ![ButtonThread] = "off"]
    /\ render_pc' = "draw"

\* setup_gpio: the line of the configured pin is requested; when that
\* succeeds the button thread is created and started (lines 782-785).  A
\* pin that is no line of the chip cannot be acquired.
setup_gpio ==
    /\ render_pc = "setup_gpio"
    /\ pc[ButtonThread] = "unstarted"
    /\ \/ /\ Used(config, "gpio_pin") # "malformed"
          /\ pc' = [pc EXCEPT ![ButtonThread] = "poll"]
          /\ render_pc' = "draw"
       \/ GpioUnavailable
    /\ UNCHANGED << now, fs, last_reset, data, new_reset, own, effects,
                    buttonVars, lock, boots, duration, canvas, read,
                    config, errors >>

\* ------------------------------------------------------------ the process
Next ==
    \/ Tick(MaxTime)
    \/ Poll
    \/ ButtonAudio
    \/ \E th \in CounterThreads : save_state_begin(th)
    \/ \E th \in CounterThreads : save_state_write(th)
    \/ \E th \in CounterThreads : save_state_rename(th)
    \/ \E th \in ReqThreads : reset_begin(th)
    \/ \E th \in ReqThreads : reset_finish(th)
    \/ \E th \in ReqThreads \cup {V1Thread} : Respond(th)
    \/ reset_counter

Spec == Init /\ [][Next]_vars

\* The DNSCounter process with its web server, killed and started again at
\* any point.
NextCrash ==
    \/ Tick(MaxTime)
    \/ Poll
    \/ ButtonAudio
    \/ \E th \in CounterThreads : save_state_begin(th)
    \/ \E th \in CounterThreads : save_state_write(th)
    \/ \E th \in CounterThreads : save_state_rename(th)
    \/ \E th \in ReqThreads : reset_begin(th)
    \/ \E th \in ReqThreads : reset_finish(th)
    \/ \E th \in ReqThreads : Respond(th)
    \/ CrashRestart

SpecCrash == Init /\ [][NextCrash]_vars

\* The web side of the DNSCounter process, killed and started again at any
\* point, with the webui blueprint's reset handler in the process: the
\* origin a save stores may be a naive datetime.
NextRoundTrip ==
    \/ Tick(MaxTime)
    \/ \E th \in ReqThreads : save_state_begin(th)
    \/ \E th \in ReqThreads : save_state_write(th)
    \/ \E th \in ReqThreads : save_state_rename(th)
    \/ \E th \in ReqThreads : reset_begin(th)
    \/ \E th \in ReqThreads : reset_finish(th)
    \/ \E th \in ReqThreads \cup {V1Thread} : Respond(th)
    \/ reset_counter
    \/ CrashRestart

SpecRoundTrip == Init /\ [][NextRoundTrip]_vars

\* The web side of the DNSCounter process: POST /api/reset and the webui
\* handler as reset triggers, and GET /api/state.
NextRead ==
    \/ Tick(MaxTime)
    \/ \E th \in ReqThreads : reset_begin(th)
    \/ \E th \in ReqThreads : save_state_begin(th)
    \/ \E th \in ReqThreads : save_state_write(th)
    \/ \E th \in ReqThreads : save_state_rename(th)
    \/ \E th \in ReqThreads : reset_finish(th)
    \/ \E th \in ReqThreads \cup {V1Thread} : Respond(th)
    \/ reset_counter
    \/ get_state

SpecRead == Init /\ [][NextRead]_vars

\* The DNSCounter process with its web server, the assignment of reset() at
\* the grain of the interpreter.
NextOrigin ==
    \/ Tick(MaxTime)
    \/ Poll
    \/ ButtonAudio
    \/ \E th \in CounterThreads : save_state_begin(th)
    \/ \E th \in CounterThreads : save_state_write(th)
    \/ \E th \in CounterThreads : save_state_rename(th)
    \/ \E th \in ReqThreads : reset_now(th)
    \/ \E th \in ReqThreads : reset_store(th)
    \/ \E th \in ReqThreads : reset_finish(th)
    \/ \E th \in ReqThreads : Respond(th)

SpecOrigin == Init /\ [][NextOrigin]_vars

\* The DNSCounter process without a web server (no web_port configured):
\* the button thread alone.
NextButton ==
    \/ Tick(MaxButtonTime)
    \/ Poll
    \/ ButtonAudio
    \/ save_state_begin(ButtonThread)
    \/ save_state_write(ButtonThread)
    \/ save_state_rename(ButtonThread)

SpecButton == Init /\ [][NextButton]_vars

\* The button thread on a line whose reads may raise.
NextPoll ==
    \/ NextButton
    \/ PollRaises

SpecPoll == Init /\ [][NextPoll]_vars

\* The DNSCounter process without a web server: the display loop and the
\* button thread.
NextRender ==
    \/ Tick(MaxTime)
    \/ Poll
    \/ ButtonAudio
    \/ save_state_begin(ButtonThread)
    \/ save_state_write(ButtonThread)
    \/ save_state_rename(ButtonThread)
    \/ render_elapsed
    \/ render_format
    \/ render_wake

SpecRender == Init /\ [][NextRender]_vars

\* The configuration files a start is checked on: no file, a broken, an
\* empty and a non-mapping document, and the mappings that give one key a
\* usable or a malformed value.
ConfigFiles ==
    { NoConfigFile, InvalidYaml, EmptyYaml, NotAMapping }
    \cup { Mapping([k \in {key} |-> v]) :
             key \in ConfigKeys, v \in {"custom", "malformed"} }

\* The process at the start of __init__, load_config done: no thread yet,
\* no origin yet.
InitStartup ==
    /\ now = BootTime
    /\ \E file \in InitialFiles :
          fs = [p \in Paths |-> IF p = Target THEN file ELSE NoFile]
    /\ \E file \in ConfigFiles : config = load_config(file)
    /\ last_reset = NoTime
    /\ pc = [th \in Threads |->
               IF th = ButtonThread THEN "unstarted" ELSE IdlePc(th)]
    /\ data = [th \in Threads |-> NoData]
    /\ new_reset = [th \in Threads |-> NoTime]
    /\ own = [th \in Threads |-> NoTime]
    /\ effects = [th \in Threads |-> {}]
    /\ last_value = -1
    /\ last_press = 0
    /\ current_time = 0
    /\ lock = "free"
    /\ boots = 0
    /\ render_pc = "init"
    /\ duration = NoDuration
    /\ canvas = NoLines
    /\ read = NoRead
    /\ errors = 0

\* The start of the DNSCounter process without a web server, and the two
\* loops it starts.
NextStartup ==
    \/ DNSCounter_init
    \/ setup_gpio
    \/ NextRender

SpecStartup == InitStartup /\ [][NextStartup]_vars

\* The elapsed times format_duration is applied to: the days, the seconds of
\* the day and the microseconds of a timedelta.
DaySamples == { -36500, -366, -1, 0, 1, 29, 30, 364, 365, 400, 36499, 36500 }
SecondSamples == { 0, 59, 60, 3599, 3600, 16837, 86399 }
MicrosecondSamples == { 0, 999999 }

\* The display loop about to format an elapsed time of any of these sizes.
InitFormat ==
    /\ InitProcessVars(NoFile)
    /\ render_pc = "format"
    /\ \E d \in DaySamples, sec \in SecondSamples, us \in MicrosecondSamples :
          duration = Timedelta(d, sec, us)
    /\ canvas = NoLines
    /\ read = NoRead
    /\ config = load_config(NoConfigFile)
    /\ errors = 0

NextFormat ==
    \/ Tick(MaxTime)
    \/ render_elapsed
    \/ render_format
    \/ render_wake

SpecFormat == InitFormat /\ [][NextFormat]_vars

\* The DNSCounter process without a web server, started on whatever the
\* persisted file holds, and killed and started again at any point.
InitLoad == \E file \in AllInitialFiles : InitProcess(file)

NextLoad ==
    \/ Tick(MaxTime)
    \/ Poll
    \/ ButtonAudio
    \/ save_state_begin(ButtonThread)
    \/ save_state_write(ButtonThread)
    \/ save_state_rename(ButtonThread)
    \/ CrashRestart

SpecLoad == InitLoad /\ [][NextLoad]_vars

\* A WebServer process without callbacks, alongside a DNSCounter process that
\* serves no web requests: both write the same persisted file.
NextStandalone ==
    \/ Tick(MaxTime)
    \/ Poll
    \/ ButtonAudio
    \/ save_state_begin(ButtonThread)
    \/ save_state_write(ButtonThread)
    \/ save_state_rename(ButtonThread)
    \/ \E th \in StandaloneThreads : standalone_reset_begin(th)
    \/ \E th \in StandaloneThreads : ws_save_begin(th)
    \/ \E th \in StandaloneThreads : ws_save_write(th)
    \/ \E th \in StandaloneThreads : ws_save_rename(th)
    \/ \E th \in StandaloneThreads : play_audio(th)
    \/ \E th \in StandaloneThreads : Respond(th)

SpecStandalone == Init /\ [][NextStandalone]_vars

\* ================================================================== claims
\* A reset trigger of thread th has run to its end.
Completed(th) ==
    IF th = ButtonThread
    THEN pc[th] = "sleep" /\ effects[th] # {}
    ELSE pc[th] = "done"

\* Thread th is between the creation of its temp file and the rename.
SaveInProgress(th) ==
    pc[th] \in {"save_write", "save_rename", "ws_save_write", "ws_save_rename"}

\* This step of the button thread observes a press edge (value 1 or None -> 0).
PressEdge ==
    /\ pc[ButtonThread] = "poll"
    /\ last_value # 0
    /\ last_value' = 0

\* C1 (atomic save): the persisted file changes only in one step, the rename
\* of a save, and then to the complete record that save wrote; so whoever
\* reads it at any point of a save (save_state or WebServer._save_state)
\* finds the complete previous content or the complete new content.
C1_AtomicSave ==
    [][ fs'[Target] # fs[Target] =>
          \E th \in Threads :
             /\ pc[th] \in {"save_rename", "ws_save_rename"}
             /\ data[th].last_reset # NoIso
             /\ fs'[Target] = File(JsonDump(data[th]))
             /\ IsCompleteRecord(fs'[Target]) ]_vars

\* A save of the web server is about to rename its complete temp file while
\* the button thread is inside its own save and the persisted file still
\* holds the complete record of an earlier save.
C1_Witness ==
    \E th \in StandaloneThreads :
       /\ pc[th] = "ws_save_rename"
       /\ pc[ButtonThread] = "save_write"
       /\ fs[TempName(th)] = RecordFile(UtcNow(BootTime + 1))
       /\ fs[Target] = RecordFile(UtcNow(BootTime))

\* C2 (crash safety): a persisted file that holds a complete record holds one
\* after every step, whatever step of a save the process is killed at; the
\* file only ever changes to the record a save is writing; and a restart
\* with a complete record in the file takes its last_reset from that record
\* and not from the clock.
C2_CrashSafe ==
    [][ /\ IsCompleteRecord(fs[Target]) => IsCompleteRecord(fs'[Target])
        /\ fs'[Target] # fs[Target] =>
              \E th \in CounterThreads : fs'[Target] = File(JsonDump(data[th]))
        /\ (boots' # boots /\ IsCompleteRecord(fs[Target])) =>
              /\ fs'[Target] = fs[Target]
              /\ IsoFormat(last_reset') = JsonGetLastReset(fs[Target].content) ]_vars

\* The process was killed and started again after a save of this run; the
\* restart took the saved time, which is not the time of the restart.
C2_Witness ==
    /\ boots > 0
    /\ fs[Target] = RecordFile(UtcNow(BootTime + 1))
    /\ last_reset = UtcNow(BootTime + 1)
    /\ now > BootTime + 1
    /\ pc[ButtonThread] = "poll"
    /\ last_value = -1

\* C3 (exclusive mutation), as claimed: after startup last_reset changes only
\* in a step of DNSCounter.reset (or a restart of the process).
C3_OnlyResetAssigns ==
    [][ last_reset' # last_reset =>
          \/ \E th \in ReqThreads : reset_begin(th)
          \/ CrashRestart ]_vars

\* C4 (single reset path), as claimed: every reset trigger of the DNSCounter
\* process that has run to its end has assigned the origin, attempted a save,
\* attempted the audio and incremented the reset counter.
C4_SameSideEffects ==
    \A th \in CounterProcess :
       Completed(th) =>
          /\ {"origin", "metric", "audio"} \subseteq effects[th]
          /\ effects[th] \cap {"save_ok", "save_failed"} # {}

\* C5 (serialized saves), as claimed: at most one thread is inside a
\* write-temp-file-then-rename sequence on the persisted file.
C5_SavesSerialized ==
    Cardinality({ th \in Threads : SaveInProgress(th) }) <= 1

\* C6 (reset returns its own origin), as claimed: the value reset() returned
\* to a request thread is the datetime that this call assigned.
C6_ReturnsOwnOrigin ==
    \A th \in ReqThreads : pc[th] = "done" => new_reset[th] = own[th]

\* C7 (debounce threshold), as claimed: a press edge is accepted exactly when
\* at least 300 ms have passed since the last accepted press.
C7_ThresholdInclusive ==
    [][ PressEdge =>
          IF now - last_press >= DEBOUNCE
          THEN pc'[ButtonThread] = "save_begin" /\ last_reset' = UtcNow(now)
          ELSE pc'[ButtonThread] = "sleep" /\ last_reset' = last_reset ]_vars

\* C7 amended: a press edge is accepted, and resets the origin once, exactly
\* when more than 300 ms have passed since the last accepted press; an edge
\* at exactly 300 ms is discarded.
C7_ThresholdStrict ==
    [][ PressEdge =>
          IF now - last_press > DEBOUNCE
          THEN pc'[ButtonThread] = "save_begin" /\ last_reset' = UtcNow(now)
          ELSE pc'[ButtonThread] = "sleep" /\ last_reset' = last_reset ]_vars

\* A press edge exactly 300 ms after the last accepted press of this run has
\* been discarded: the thread sleeps, the origin is still that of the
\* accepted press.
C7_Witness ==
    /\ pc[ButtonThread] = "sleep"
    /\ last_value = 0
    /\ last_press >= BootTime
    /\ current_time = last_press + DEBOUNCE
    /\ last_reset = UtcNow(last_press)

\* C8 (debounce reference): last_press changes only at the end of the handling
\* of an accepted press, to the time that press was observed; an edge inside
\* the window leaves it as it is and triggers nothing.
C8_DebounceReference ==
    [][ /\ last_press' # last_press =>
              /\ pc[ButtonThread] = "audio"
              /\ last_press' = current_time
              /\ current_time - last_press > DEBOUNCE
        /\ (PressEdge /\ now - last_press <= DEBOUNCE) =>
              /\ last_press' = last_press
              /\ pc'[ButtonThread] = "sleep"
              /\ last_reset' = last_reset ]_vars

\* The edge 200 ms after the accepted press at boot time was discarded: the
\* reference is still the time of the accepted press.
C8_Witness ==
    /\ last_press = BootTime
    /\ current_time = BootTime + 2
    /\ last_value = 0
    /\ pc[ButtonThread] = "sleep"

\* C9 (independent sub-steps), as claimed: a reset whose save failed has
\* still attempted the audio.
C9_AudioDespiteSaveFailure ==
    \A th \in Threads :
       (Completed(th) /\ "save_failed" \in effects[th]) => "audio" \in effects[th]

\* C10 (non-fatal save failure): save_state always returns to its caller,
\* which goes on to the audio; it writes the origin it read when it began;
\* it never changes last_reset; a failed save leaves the persisted file as it
\* was, a successful one leaves the record of the origin it read.
C10_SaveFailureNonFatal ==
    [][ \A th \in CounterThreads :
          /\ (pc[th] = "save_begin" /\ pc'[th] = "save_write") =>
                data'[th] = [last_reset |-> IsoFormat(last_reset), version |-> VERSION]
          /\ (pc[th] \in {"save_begin", "save_write", "save_rename"}
              /\ pc'[th] \notin {"save_begin", "save_write", "save_rename"}) =>
                /\ pc'[th] = "audio"
                /\ last_reset' = last_reset
                /\ "save_failed" \in effects'[th] => fs'[Target] = fs[Target]
                /\ ("save_failed" \notin effects'[th]) =>
                      /\ data[th].last_reset # NoIso
                      /\ fs'[Target] = File(JsonDump(data[th])) ]_vars

\* The save of an accepted button press failed: the thread is on its way to
\* the audio, the origin is the new one, the file does not hold it.
C10_Witness ==
    /\ pc[ButtonThread] = "audio"
    /\ "save_failed" \in effects[ButtonThread]
    /\ last_reset = UtcNow(current_time)
    /\ fs[Target] # RecordFile(last_reset)

\* The persisted file is one that holds no record load_state can use: it is
\* missing, empty, not JSON, the object {}, an object without last_reset, or
\* unreadable.
NoPriorRecord(f) ==
    \/ ~f.exists
    \/ ~f.readable
    \/ f.content = << >>
    \/ f.content = << OpenBrace, Garbage >>
    \/ f.content = << OpenBrace, CloseBrace >>
    \/ f.content = << OpenBrace, VersionEntry(VERSION), CloseBrace >>

Datetimes ==
    { UtcNow(t) : t \in (BootTime - 1)..MaxTime }
       \cup { NaiveNow(t) : t \in (BootTime - 1)..MaxTime }

\* C12 (round trip): a save called while the origin is T writes the record
\* of T, a successful save leaves that record in the persisted file, and a
\* load_state on a file that holds the record of T returns T.
C12_RoundTrip ==
    [][ /\ \A th \in CounterThreads :
             /\ (pc[th] = "save_begin" /\ pc'[th] = "save_write") =>
                   \E T \in Datetimes :
                      T = last_reset /\ File(JsonDump(data'[th])) = RecordFile(T)
             /\ (pc[th] = "save_rename" /\ "save_ok" \in effects'[th]) =>
                   fs'[Target] = File(JsonDump(data[th]))
        /\ boots' # boots =>
              \A T \in Datetimes :
                 fs[Target] = RecordFile(T) => last_reset' = T ]_vars

\* The process was started again on the record of a naive origin, saved in
\* this run by a web reset: the restart's origin is that naive datetime.
C12_Witness ==
    /\ boots > 0
    /\ fs[Target] = RecordFile(NaiveNow(BootTime + 1))
    /\ last_reset = NaiveNow(BootTime + 1)
    /\ now > BootTime + 1

\* C13 (monotonic origin), as claimed: every change of last_reset sets it to
\* a datetime that is comparable with the previous one and not before it.
C13_OriginNeverDecreases ==
    [][ last_reset' # last_reset =>
          /\ last_reset'.tz = last_reset.tz
          /\ last_reset'.t >= last_reset.t ]_vars

\* C14 (origin defined and timezone-aware), as claimed: in every state the
\* origin is a datetime, and an aware one, so that the display loop's
\* datetime.now(timezone.utc) - self.last_reset can be computed.
C14_OriginAware ==
    /\ last_reset \notin {NoTime, Raised}
    /\ last_reset.tz = "utc"
    /\ CanSubtract(UtcNow(now), last_reset)

\* The characters of the lines pinned by the tests.
Pinned(d, sec) ==
    IF d = 0 /\ sec = 0 THEN
         [line1 |-> << "0","0","y"," ","0","0","m","o"," ","0","0","d" >>,
          line2 |-> << "0","0","h"," ","0","0","m"," ","0","0","s" >>]
    ELSE IF d = 1 /\ sec = 0 THEN
         [line1 |-> << "0","0","y"," ","0","0","m","o"," ","0","1","d" >>,
          line2 |-> << "0","0","h"," ","0","0","m"," ","0","0","s" >>]
    ELSE IF d = 29 /\ sec = 0 THEN
         [line1 |-> << "0","0","y"," ","0","0","m","o"," ","2","9","d" >>,
          line2 |-> << "0","0","h"," ","0","0","m"," ","0","0","s" >>]
    ELSE IF d = 365 /\ sec = 0 THEN
         [line1 |-> << "0","1","y"," ","0","0","m","o"," ","0","0","d" >>,
          line2 |-> << "0","0","h"," ","0","0","m"," ","0","0","s" >>]
    ELSE IF d = 400 /\ sec = 16837 THEN
         [line1 |-> << "0","1","y"," ","0","1","m","o"," ","0","5","d" >>,
          line2 |-> << "0","4","h"," ","4","0","m"," ","3","7","s" >>]
    ELSE NoLines

\* C15 (formatter decomposition): the lines drawn for a non-negative elapsed
\* time carry years = days div 365, months = (days mod 365) div 30, days =
\* (days mod 365) mod 30, and the hours, minutes and seconds of the seconds
\* of the day; 0 s, 1 day, 29 days, 365 days and 400 days + 16837 s give
\* the pinned lines.
C15_Decomposition ==
    (render_pc = "sleep" /\ duration.days >= 0) =>
       /\ canvas.line1 = Line1(duration.days \div 365,
                               (duration.days % 365) \div 30,
                               (duration.days % 365) % 30)
       /\ canvas.line2 = Line2(duration.seconds \div 3600,
                               (duration.seconds % 3600) \div 60,
                               duration.seconds % 60)
       /\ Pinned(duration.days, duration.seconds) # NoLines =>
              canvas = Pinned(duration.days, duration.seconds)

\* 400 days and 16837 seconds have been formatted and drawn.
C15_Witness ==
    /\ render_pc = "sleep"
    /\ duration = Timedelta(400, 16837, 0)
    /\ canvas = Pinned(400, 16837)
    /\ canvas # NoLines

\* The characters at positions from..to of a line are two decimal digits.
TwoDigitsAt(l, from) ==
    /\ \E k \in 0..9 : l[from] = Digit(k)
    /\ \E k \in 0..9 : l[from + 1] = Digit(k)

\* "DDy DDmo DDd": twelve characters, every field two digits.
FixedLine1(l) ==
    /\ Len(l) = 12
    /\ TwoDigitsAt(l, 1) /\ l[3] = "y" /\ l[4] = " "
    /\ TwoDigitsAt(l, 5) /\ l[7] = "m" /\ l[8] = "o" /\ l[9] = " "
    /\ TwoDigitsAt(l, 10) /\ l[12] = "d"

\* "DDh DDm DDs": eleven characters, every field two digits.
FixedLine2(l) ==
    /\ Len(l) = 11
    /\ TwoDigitsAt(l, 1) /\ l[3] = "h" /\ l[4] = " "
    /\ TwoDigitsAt(l, 5) /\ l[7] = "m" /\ l[8] = " "
    /\ TwoDigitsAt(l, 9) /\ l[11] = "s"

\* C16 (fixed-width output), as claimed: whatever the elapsed time, the two
\* lines drawn have all six fields, each of exactly two digits.
C16_FixedWidth ==
    render_pc = "sleep" => FixedLine1(canvas.line1) /\ FixedLine2(canvas.line2)

\* C16 amended: the two lines drawn have all six fields, each of exactly two
\* zero-padded digits, exactly when the elapsed time is not negative and
\* below 36500 days (100 years of 365 days); the second line always has.
C16_FixedWidthBelow100Years ==
    render_pc = "sleep" =>
       /\ FixedLine2(canvas.line2)
       /\ FixedLine1(canvas.line1) <=> (0 <= duration.days /\ duration.days < 36500)

\* The longest elapsed time with two-digit years, one microsecond short of
\* 36500 days, has been drawn as 99y 12mo 04d, 23h 59m 59s.
C16_Witness ==
    /\ render_pc = "sleep"
    /\ duration = Timedelta(36499, 86399, 999999)
    /\ canvas.line1 = << "9","9","y"," ","1","2","m","o"," ","0","4","d" >>
    /\ canvas.line2 = << "2","3","h"," ","5","9","m"," ","5","9","s" >>

\* This step is a call of get_last_reset that returns to /api/state.
Returns ==
    /\ read' # read
    /\ read'.value # NoTime
    /\ ~read'.assigned_since

\* C17 (idempotent read): a call of get_last_reset that follows an earlier
\* call, with no assignment of the origin by any thread since, returns the
\* value the earlier call returned; and a call changes neither the origin
\* nor any file.
C17_IdempotentRead ==
    [][ Returns =>
          /\ (read.value # NoTime /\ ~read.assigned_since) =>
                 read'.value = read.value
          /\ read'.value = last_reset
          /\ last_reset' = last_reset
          /\ fs' = fs ]_vars

\* get_last_reset returned the origin of this run's first reset, whose save
\* is still under way at a later time; no reset has been made since the call.
C17_Witness ==
    /\ read = [value |-> UtcNow(BootTime), assigned_since |-> FALSE]
    /\ last_reset = UtcNow(BootTime)
    /\ now > BootTime
    /\ \E th \in CounterThreads : pc[th] = "save_rename"

\* This step completes a successful save of thread th.
SaveSucceeds(th) == "save_ok" \notin effects[th] /\ "save_ok" \in effects'[th]

\* C18 (persisted record format): a save takes the ISO text of the origin
\* passed to it (self.last_reset, or the last_reset argument of the web
\* server's _save_state), and when it succeeds the persisted file holds one
\* JSON object of two entries: last_reset with that text, and version 1.
C18_RecordFormat ==
    [][ \A th \in Threads :
          /\ (pc[th] = "save_begin" /\ pc'[th] = "save_write") =>
                data'[th].last_reset = IsoFormat(last_reset)
          /\ (pc[th] = "ws_save_begin" /\ pc'[th] = "ws_save_write") =>
                data'[th].last_reset = IsoFormat(new_reset[th])
          /\ SaveSucceeds(th) =>
                /\ fs'[Target].exists
                /\ JsonValid(fs'[Target].content)
                /\ Len(fs'[Target].content) = 4
                /\ JsonGetLastReset(fs'[Target].content) = data[th].last_reset
                /\ data[th].last_reset # NoIso
                /\ JsonGetVersion(fs'[Target].content) = 1 ]_vars

\* A standalone web reset has saved its origin and goes on to the audio: the
\* persisted file holds the record of that origin.
C18_Witness ==
    \E th \in StandaloneThreads :
       /\ pc[th] = "play_audio"
       /\ "save_ok" \in effects[th]
       /\ new_reset[th] = UtcNow(BootTime + 1)
       /\ JsonGetLastReset(fs[Target].content) = IsoFormat(new_reset[th])
       /\ JsonGetVersion(fs[Target].content) = 1

\* C19 (falling edge only), as claimed: the button thread goes into a reset
\* only from a poll that reads pressed (0) after a poll that read released
\* (1); not from its first poll, which has no earlier value.
C19_FallingEdgeOnly ==
    [][ (pc[ButtonThread] = "poll" /\ pc'[ButtonThread] = "save_begin") =>
           last_value = 1 /\ last_value' = 0 ]_vars

\* C20 (render fault isolation), as claimed: a draw that fails does not end
\* the display loop; the loop goes on to its next pass.
C20_RenderLoopContinues ==
    [][ render_pc = "format" => render_pc' \in {"format", "sleep"} ]_vars

\* The button thread is in its loop: about to poll, asleep between two polls,
\* or handling an accepted press.
InLoop ==
    pc[ButtonThread] \in {"poll", "sleep", "save_begin", "save_write",
                          "save_rename", "audio"}

RenderStep ==
    \/ render_pc' # render_pc
    \/ duration' # duration
    \/ canvas' # canvas

\* C22 (the display loop is read-only): no step of the display loop changes
\* the in-memory origin or any file in the directory of the persisted file.
C22_RenderReadOnly ==
    [][ RenderStep => last_reset' = last_reset /\ fs' = fs ]_vars

\* A frame with a non-zero elapsed time is on the display; the origin and the
\* persisted record are the ones the process started with.
C22_Witness ==
    /\ render_pc = "sleep"
    /\ duration = Timedelta(0, 0, 100000)
    /\ canvas = format_duration(duration)
    /\ now = BootTime
    /\ last_reset = UtcNow(BootTime - 1)
    /\ fs[Target] = RecordFile(UtcNow(BootTime - 1))

\* The next step of the display loop, and the next step of the button thread.
RenderNext == render_elapsed \/ render_format \/ render_wake
ButtonNext ==
    \/ Poll
    \/ save_state_begin(ButtonThread)
    \/ save_state_write(ButtonThread)
    \/ save_state_rename(ButtonThread)
    \/ ButtonAudio

\* The button thread is inside a reset: between the assignment of the origin
\* and the end of the audio.
ButtonResetInProgress ==
    pc[ButtonThread] \in {"save_begin", "save_write", "save_rename", "audio"}

C24_DegradedContinue ==
    /\ [](pc[ButtonThread] = "off" =>
             /\ render_pc # "aborted"
             /\ render_pc \in {"draw", "format", "sleep"} => ENABLED RenderNext
             /\ ~ ENABLED ButtonNext)
    /\ [][ /\ render_pc = "setup_gpio" => render_pc' \in {"setup_gpio", "draw"}
           /\ pc[ButtonThread] = "off" =>
                 /\ pc'[ButtonThread] = "off"
                 /\ UNCHANGED << buttonVars, last_reset, fs >> ]_vars

\* The line was not acquired and the display shows a frame.
C24_Witness ==
    /\ pc[ButtonThread] = "off"
    /\ config = DEFAULT_CONFIG
    /\ render_pc = "sleep"
    /\ canvas = format_duration(duration)
    /\ canvas # NoLines

\* C25 (configuration fallback), as claimed: whatever the configuration file
\* holds, the value the program works with is never a malformed one (the
\* default of the key stands in for it), and startup is not aborted.
C25_ConfigurationFallback ==
    /\ \A k \in ConfigKeys : Used(config, k) # "malformed"
    /\ render_pc # "aborted"

\* "-Ny DDmo DDd": a minus sign and one to three digits of years, then the
\* two-digit months and days.
NegativeLine1(l) ==
    \E n \in 1..3 :
       /\ Len(l) = 11 + n
       /\ l[1] = "-"
       /\ \A i \in 2..(n + 1) : \E k \in 0..9 : l[i] = Digit(k)
       /\ l[n + 2] = "y" /\ l[n + 3] = " "
       /\ TwoDigitsAt(l, n + 4) /\ l[n + 6] = "m" /\ l[n + 7] = "o"
       /\ l[n + 8] = " "
       /\ TwoDigitsAt(l, n + 9) /\ l[n + 11] = "d"

\* C26 (negative elapsed time): format_duration of an elapsed time below
\* zero returns: the display pass that formats it can go on to its sleep,
\* and then both lines are there, the first with negative years and two-digit
\* months and days, the second with its three two-digit fields.
C26_NegativeElapsed ==
    /\ (render_pc = "format" /\ duration.days < 0) =>
          ENABLED (render_format /\ render_pc' = "sleep")
    /\ (render_pc = "sleep" /\ duration.days < 0) =>
          /\ NegativeLine1(canvas.line1)
          /\ FixedLine2(canvas.line2)

\* One microsecond below zero has been formatted and drawn: -1y 12mo 04d
\* and 00h 00m 00s.
C26_Witness ==
    /\ render_pc = "sleep"
    /\ duration = Timedelta(-1, 86399, 999999)
    /\ canvas.line1 = << "-","1","y"," ","1","2","m","o"," ","0","4","d" >>
    /\ canvas.line2 = << "0","0","h"," ","0","0","m"," ","0","0","s" >>

\* The number that a string of decimal digits shows.
DigitValue(c) == CHOOSE k \in 0..9 : Digit(k) = c
RECURSIVE ParseDecimal(_)
ParseDecimal(digits) ==
    IF digits = << >> THEN 0
    ELSE ParseDecimal(SubSeq(digits, 1, Len(digits) - 1)) * 10
            + DigitValue(digits[Len(digits)])

\* The first position of character c in line l.
IndexOf(l, c) == CHOOSE i \in 1..Len(l) : l[i] = c /\ \A j \in 1..(i - 1) : l[j] # c

\* The six fields as the two lines show them: "<years>y <months>mo <days>d"
\* and "<hours>h <minutes>m <seconds>s".
Fields(lines) ==
    LET l1 == lines.line1
        l2 == lines.line2
        y  == IndexOf(l1, "y")
        mo == IndexOf(l1, "m")
        h  == IndexOf(l2, "h")
        m  == IndexOf(l2, "m")
    IN  [years   |-> ParseDecimal(SubSeq(l1, 1, y - 1)),
         months  |-> ParseDecimal(SubSeq(l1, y + 2, mo - 1)),
         days    |-> ParseDecimal(SubSeq(l1, mo + 3, Len(l1) - 1)),
         hours   |-> ParseDecimal(SubSeq(l2, 1, h - 1)),
         minutes |-> ParseDecimal(SubSeq(l2, h + 2, m - 1)),
         seconds |-> ParseDecimal(SubSeq(l2, m + 2, Len(l2) - 1))]

C28_FileAgreesAtQuiescence ==
    (\A th \in CounterThreads : Completed(th) /\ "save_ok" \in effects[th]) =>
        JsonGetLastReset(fs[Target].content) = IsoFormat(last_reset)

\* C29 (no auto-repeat): while the last value the button thread observed is
\* pressed (0), no poll starts a reset or assigns the origin, whether the
\* press that was observed had been accepted or rejected; the observed value
\* leaves pressed only by a poll that reads released (1), and a poll that
\* fails leaves it as it is.  A held button therefore causes no reset after
\* the one of its press edge.
C29_NoAutoRepeat ==
    [][ /\ (pc[ButtonThread] = "poll" /\ last_value = 0) =>
              /\ pc'[ButtonThread] # "save_begin"
              /\ last_reset' = last_reset
        /\ PressEdge => last_value' = 0
        /\ (last_value = 0 /\ last_value' # 0) =>
              /\ pc[ButtonThread] = "poll"
              /\ last_value' = 1
        /\ errors' # errors => last_value' = last_value ]_vars

\* The button was pressed at the start and is still read as pressed by a
\* poll after the debounce window: that poll changed nothing, the origin is
\* the one of the press.
C29_Witness ==
    /\ pc[ButtonThread] = "sleep"
    /\ effects[ButtonThread] = {}
    /\ errors = 0
    /\ last_value = 0
    /\ last_press = BootTime
    /\ current_time = BootTime
    /\ now > BootTime + DEBOUNCE
    /\ last_reset = UtcNow(BootTime)

\* Thread th is in save_state.
InSave(th) == pc[th] \in {"save_begin", "save_write", "save_rename"}

\* C30 (memory before file): a thread is in save_state only after it has
\* assigned the origin in the same reset; the record a save builds carries
\* the origin that memory holds at that moment and is not changed while the
\* save goes on; and the persisted file changes only to the record of a save
\* at its rename.  So the file never holds a reset time that memory has not
\* held before.
C30_MemoryBeforeFile ==
    /\ [](\A th \in CounterThreads : InSave(th) => "origin" \in effects[th])
    /\ [][ /\ \A th \in CounterThreads :
                /\ (pc[th] = "save_begin" /\ pc'[th] = "save_write") =>
                      data'[th].last_reset = IsoFormat(last_reset)
                /\ (pc[th] \in {"save_write", "save_rename"}
                       /\ pc'[th] \in {"save_write", "save_rename"}) =>
                      data'[th] = data[th]
           /\ fs'[Target] # fs[Target] =>
                \E th \in CounterThreads :
                   /\ pc[th] = "save_rename"
                   /\ fs'[Target] = File(JsonDump(data[th])) ]_vars

\* The button thread has renamed the record of the origin it assigned one
\* tick after the start; memory holds that origin.
C30_Witness ==
    /\ pc[ButtonThread] = "audio"
    /\ "save_ok" \in effects[ButtonThread]
    /\ last_reset = UtcNow(BootTime + 1)
    /\ fs[Target] = RecordFile(last_reset)

====
